---- MODULE Spec2Model ----
(***************************************************************************)
(* Event recording service of the phishing campaign manager                *)
(* (api/routers/events.py): five tracking handlers that insert one Event   *)
(* row each and one listing handler that joins events to their campaign.   *)
(* Each handler is one atomic step; the database session is modelled by    *)
(* the committed tables, a failed or rolled-back transaction leaves them   *)
(* as they were.                                                           *)
(***************************************************************************)
EXTENDS Integers, Sequences, FiniteSets, TLC

VARIABLES campaigns, employees, events, resp

vars == << campaigns, employees, events, resp >>

(* ----------------------------- bounds ---------------------------------- *)

\* Largest number of Event rows the store holds in the model.
MaxEvents == 2

(* ------------------------ base64 and the pixel ------------------------- *)

B64Alphabet ==
    << "A", "B", "C", "D", "E", "F", "G", "H", "I", "J", "K", "L", "M", "N", "O", "P",
       "Q", "R", "S", "T", "U", "V", "W", "X", "Y", "Z", "a", "b", "c", "d", "e", "f",
       "g", "h", "i", "j", "k", "l", "m", "n", "o", "p", "q", "r", "s", "t", "u", "v",
       "w", "x", "y", "z", "0", "1", "2", "3", "4", "5", "6", "7", "8", "9", "+", "/" >>

ONE_PIXEL_GIF_BASE64 ==
    << "R", "0", "l", "G", "O", "D", "l", "h", "A", "Q", "A", "B", "A", "P", "A",
       "A", "A", "A", "A", "A", "A", "A", "A", "A", "A", "C", "H", "5", "B", "A",
       "E", "A", "A", "A", "A", "A", "L", "A", "A", "A", "A", "A", "A", "B", "A",
       "A", "E", "A", "A", "A", "I", "C", "R", "A", "E", "A", "O", "w", "=", "=" >>

B64Index(c) == (CHOOSE i \in 1..Len(B64Alphabet) : B64Alphabet[i] = c) - 1

\* Value of one base64 character; the padding character contributes no bits.
B64Val(c) == IF c = "=" THEN 0 ELSE B64Index(c)

\* The bytes of one group of four base64 characters.
B64Group(a, b, c, d) ==
    LET n == ((B64Val(a) * 64 + B64Val(b)) * 64 + B64Val(c)) * 64 + B64Val(d)
        b1 == n \div 65536
        b2 == (n \div 256) % 256
        b3 == n % 256
    IN  IF c = "=" THEN << b1 >>
        ELSE IF d = "=" THEN << b1, b2 >>
        ELSE << b1, b2, b3 >>

RECURSIVE b64decode(_)
b64decode(s) ==
    IF Len(s) < 4 THEN << >>
    ELSE B64Group(s[1], s[2], s[3], s[4]) \o b64decode(SubSeq(s, 5, Len(s)))

ONE_PIXEL_GIF == b64decode(ONE_PIXEL_GIF_BASE64)

(* --------------------------- Python helpers ---------------------------- *)

\* Optional[int] query parameters: None, or Some(x).
None == << >>

Some(x) == << x >>

\* Python truthiness of an Optional[int]: None and 0 are both falsy.
Truthy(o) == o # None /\ o[1] # 0

DigitChars == << "0", "1", "2", "3", "4", "5", "6", "7", "8", "9" >>

IsDigit(c) == \E i \in 1..Len(DigitChars) : DigitChars[i] = c

DigitVal(c) == (CHOOSE i \in 1..Len(DigitChars) : DigitChars[i] = c) - 1

IsSpace(c) == c = " "

RECURSIVE LStrip(_)
LStrip(s) ==
    IF Len(s) > 0 /\ IsSpace(s[1]) THEN LStrip(Tail(s)) ELSE s

RECURSIVE RStrip(_)
RStrip(s) ==
    IF Len(s) > 0 /\ IsSpace(s[Len(s)]) THEN RStrip(SubSeq(s, 1, Len(s) - 1)) ELSE s

Strip(s) == RStrip(LStrip(s))

\* Digits, with single underscores allowed between two digits.
IsDigitRun(b) ==
    /\ Len(b) > 0
    /\ \A i \in 1..Len(b) :
          \/ IsDigit(b[i])
          \/ /\ b[i] = "_"
             /\ i > 1
             /\ i < Len(b)
             /\ IsDigit(b[i - 1])
             /\ IsDigit(b[i + 1])

RECURSIVE DigitRunValue(_, _)
DigitRunValue(b, acc) ==
    IF Len(b) = 0 THEN acc
    ELSE IF b[1] = "_" THEN DigitRunValue(Tail(b), acc)
    ELSE DigitRunValue(Tail(b), acc * 10 + DigitVal(b[1]))

\* An int() that reads anything that is not a number as 0.
PyIntLenient(s) ==
    LET t      == Strip(s)
        signed == Len(t) > 0 /\ t[1] \in {"+", "-"}
        b      == IF signed THEN Tail(t) ELSE t
    IN  IF ~IsDigitRun(b) THEN [ok |-> TRUE, value |-> 0]
        ELSE [ok |-> TRUE, value |-> DigitRunValue(b, 0)]

\* int(str): surrounding whitespace stripped, an optional sign, then digits.
\* ok = FALSE stands for ValueError.
PyInt(s) ==
    LET t      == Strip(s)
        signed == Len(t) > 0 /\ t[1] \in {"+", "-"}
        b      == IF signed THEN Tail(t) ELSE t
        mag    == DigitRunValue(b, 0)
    IN  IF ~IsDigitRun(b) THEN [ok |-> FALSE, value |-> 0]
        ELSE [ok |-> TRUE,
              value |-> IF signed /\ t[1] = "-" THEN 0 - mag ELSE mag]

\* str(HTTPException(status_code, detail))
StrHTTPException(status_code, detail) == ToString(status_code) \o ": " \o detail

(* ------------------------------ the store ------------------------------ *)

EventTypes == {"OPEN", "CLICK", "SUBMITTED", "REPORTED", "DOWNLOADED_ATTACHMENT"}

\* Rows of the Campaign and Employee tables, which this router only reads.
CampaignRows ==
    { [id |-> 1, name |-> "Q1 Phish"], [id |-> 2, name |-> "Q2 Phish"] }

EmployeeRows ==
    { [id |-> 7, email |-> "a@x.com"], [id |-> 8, email |-> "b@x.com"] }

\* The campaign query with its filter on the id left out.
CampaignByIdUnfiltered(campaign_id) == campaigns

\* db.query(models.Campaign).filter(models.Campaign.id == campaign_id)
CampaignById(campaign_id) == { c \in campaigns : c.id = campaign_id }

\* The employee query with its filter on the email left out.
EmployeeByEmailUnfiltered(email) == employees

\* db.query(models.Employee).filter(models.Employee.email == email)
EmployeeByEmail(email) == { e \in employees : e.email = email }

\* .first() of a query whose result is not empty
First(rows) == CHOOSE r \in rows : TRUE

\* models.Event(...): the store assigns id and timestamp when the row is
\* inserted; both are the row's position in insertion order.
Event(email, campaign_id, employee_id, event_type, ip) ==
    [id          |-> Len(events) + 1,
     email       |-> email,
     ip          |-> ip,
     event_type  |-> event_type,
     campaign_id |-> campaign_id,
     employee_id |-> employee_id,
     timestamp   |-> Len(events) + 1]

\* db.add(event); db.commit() when the commit goes through
Committed(event) == Append(events, event)

\* db.rollback(): the pending insert is discarded
RolledBack == events

(* ----------------------------- responses ------------------------------- *)

Response(op, status_code, media_type, content) ==
    [op |-> op, status_code |-> status_code,
     media_type |-> media_type, content |-> content]

\* HTTPException(status_code, detail) as rendered by the framework
HTTPException(op, status_code, detail) ==
    Response(op, status_code, "application/json", [detail |-> detail])

TemplateResponse(op, name, context) ==
    Response(op, 200, "text/html", [template |-> name, context |-> context])

\* What a handler call leaves behind: the Event table and the response.
Outcome(rows, response) == [events |-> rows, resp |-> response]

(* ------------------------ inputs of the handlers ----------------------- *)

Emails == {"a@x.com", "b@x.com", "missing@x.com"}

CampaignIds == {1, 3}

\* request.client.host
ClientHosts == {"10.0.0.1"}

\* Where the environment makes a call fail: nowhere, in a query, in
\* db.commit() (the store unreachable, or a constraint it enforces
\* violated), in db.refresh() or in rendering the template.
StoreFaults == {"none", "query", "commit", "refresh"}

RenderFaults == StoreFaults \cup {"render"}

FaultText(fault) ==
    CASE fault = "query"   -> "OperationalError: query failed"
      [] fault = "commit"  -> "IntegrityError: commit failed"
      [] fault = "refresh" -> "InvalidRequestError: refresh failed"
      [] fault = "render"  -> "TemplateNotFound"
      [] OTHER             -> ""

(* ------------------------------ handlers ------------------------------- *)

\* GET /events/track_open
track_open(email, campaign_id, host, fault) ==
    LET op       == "track_open"
        campaign == CampaignById(campaign_id)
        employee == EmployeeByEmail(email)
        event    == Event(email, campaign_id, First(employee).id, "OPEN", host)
    IN  IF fault = "query"
          THEN Outcome(RolledBack, HTTPException(op, 500, FaultText(fault)))
        ELSE IF campaign = {}
          THEN Outcome(RolledBack, HTTPException(op, 404, "Campaign not found"))
        ELSE IF employee = {}
          THEN Outcome(RolledBack, HTTPException(op, 404, "Employee not found"))
        ELSE IF fault = "commit"
          THEN Outcome(RolledBack, HTTPException(op, 500, FaultText(fault)))
        ELSE IF fault = "refresh"
          THEN Outcome(Committed(event), HTTPException(op, 500, FaultText(fault)))
        ELSE Outcome(Committed(event), Response(op, 200, "image/gif", ONE_PIXEL_GIF))

\* GET /events/track_click: no handler for HTTPException, so the 404s raised
\* inside the try block are caught as Exception and re-raised as 500.
track_click(email, campaign_id, host, fault) ==
    LET op       == "track_click"
        campaign == CampaignById(campaign_id)
        employee == EmployeeByEmail(email)
        event    == Event(email, campaign_id, First(employee).id, "CLICK", host)
    IN  IF fault = "query"
          THEN Outcome(RolledBack, HTTPException(op, 500, FaultText(fault)))
        ELSE IF campaign = {}
          THEN Outcome(RolledBack,
                       HTTPException(op, 500, StrHTTPException(404, "Campaign not found")))
        ELSE IF employee = {}
          THEN Outcome(RolledBack,
                       HTTPException(op, 500, StrHTTPException(404, "Employee not found")))
        ELSE IF fault = "commit"
          THEN Outcome(RolledBack, HTTPException(op, 500, FaultText(fault)))
        ELSE IF fault \in {"refresh", "render"}
          THEN Outcome(Committed(event), HTTPException(op, 500, FaultText(fault)))
        ELSE Outcome(Committed(event),
                     TemplateResponse(op, "submission.html",
                                      [campaign_id    |-> campaign_id,
                                       employee_email |-> email,
                                       employee_id    |-> First(employee).id]))

\* form.get(name): the field's value, or None (here: not in the domain)
Has(form, name) == name \in DOMAIN form

\* all([email, campaign_id, employee_id]): every field present and not empty
AllFields(form) ==
    /\ Has(form, "employee_email") /\ form.employee_email # ""
    /\ Has(form, "campaign_id")    /\ form.campaign_id # << >>
    /\ Has(form, "employee_id")    /\ form.employee_id # << >>

\* track_submitted taking the employee id from a lookup by email, as the
\* other handlers do, where there is such an employee.
track_submitted_by_lookup(form, host, fault) ==
    LET op          == "track_submitted"
        campaign_id == PyInt(form.campaign_id)
        employee_id == PyInt(form.employee_id)
        employee    == EmployeeByEmail(form.employee_email)
        event       == Event(form.employee_email, campaign_id.value,
                             IF employee = {} THEN employee_id.value
                                              ELSE First(employee).id,
                             "SUBMITTED", host)
    IN  IF ~AllFields(form)
          THEN Outcome(RolledBack, HTTPException(op, 400, "Missing required fields"))
        ELSE IF ~campaign_id.ok \/ ~employee_id.ok
          THEN Outcome(RolledBack, HTTPException(op, 400, "Invalid ID format"))
        ELSE IF fault = "commit"
          THEN Outcome(RolledBack, HTTPException(op, 500, FaultText(fault)))
        ELSE IF fault \in {"refresh", "render"}
          THEN Outcome(Committed(event), HTTPException(op, 500, FaultText(fault)))
        ELSE Outcome(Committed(event),
                     TemplateResponse(op, "training.html",
                                      [campaign_id |-> campaign_id.value,
                                       email       |-> form.employee_email]))

\* POST /events/track_submitted
track_submitted(form, host, fault) ==
    LET op          == "track_submitted"
        campaign_id == PyInt(form.campaign_id)
        employee_id == PyInt(form.employee_id)
        event       == Event(form.employee_email, campaign_id.value, employee_id.value,
                             "SUBMITTED", host)
    IN  IF ~AllFields(form)
          THEN Outcome(RolledBack, HTTPException(op, 400, "Missing required fields"))
        ELSE IF ~campaign_id.ok \/ ~employee_id.ok
          THEN Outcome(RolledBack, HTTPException(op, 400, "Invalid ID format"))
        ELSE IF fault = "commit"
          THEN Outcome(RolledBack, HTTPException(op, 500, FaultText(fault)))
        ELSE IF fault \in {"refresh", "render"}
          THEN Outcome(Committed(event), HTTPException(op, 500, FaultText(fault)))
        ELSE Outcome(Committed(event),
                     TemplateResponse(op, "training.html",
                                      [campaign_id |-> campaign_id.value,
                                       email       |-> form.employee_email]))

\* GET /events/track_reported: the campaign is not looked up
track_reported(email, campaign_id, host, fault) ==
    LET op       == "track_reported"
        employee == EmployeeByEmail(email)
        event    == Event(email, campaign_id, First(employee).id, "REPORTED", host)
    IN  IF fault = "query"
          THEN Outcome(RolledBack, HTTPException(op, 500, FaultText(fault)))
        ELSE IF employee = {}
          THEN Outcome(RolledBack,
                       HTTPException(op, 500, StrHTTPException(404, "Employee not found")))
        ELSE IF fault = "commit"
          THEN Outcome(RolledBack, HTTPException(op, 500, FaultText(fault)))
        ELSE IF fault \in {"refresh", "render"}
          THEN Outcome(Committed(event), HTTPException(op, 500, FaultText(fault)))
        ELSE Outcome(Committed(event), TemplateResponse(op, "reported.html", << >>))

\* GET /events/track_downloaded (the second function named track_reported)
track_downloaded(email, campaign_id, host, fault) ==
    LET op       == "track_downloaded"
        employee == EmployeeByEmail(email)
        event    == Event(email, campaign_id, First(employee).id,
                          "DOWNLOADED_ATTACHMENT", host)
    IN  IF fault = "query"
          THEN Outcome(RolledBack, HTTPException(op, 500, FaultText(fault)))
        ELSE IF employee = {}
          THEN Outcome(RolledBack,
                       HTTPException(op, 500, StrHTTPException(404, "Employee not found")))
        ELSE IF fault = "commit"
          THEN Outcome(RolledBack, HTTPException(op, 500, FaultText(fault)))
        ELSE IF fault = "refresh"
          THEN Outcome(Committed(event), HTTPException(op, 500, FaultText(fault)))
        ELSE Outcome(Committed(event),
                     Response(op, 200, "application/json", [status |-> "success"]))

\* event.Event.event_type.value
EventTypeValue(event_type) == event_type

\* One row of db.query(models.Event, models.Campaign.name).join(models.Campaign)
EventResponse(event, campaign_name) ==
    [id            |-> event.id,
     email         |-> event.email,
     ip            |-> event.ip,
     event_type    |-> EventTypeValue(event.event_type),
     campaign_id   |-> event.campaign_id,
     employee_id   |-> event.employee_id,
     campaign_name |-> campaign_name,
     timestamp     |-> event.timestamp]

\* The inner join of Event and Campaign, with the filters that are applied:
\* an event without a Campaign row of its campaign_id yields no row.
RECURSIVE JoinFiltered(_, _, _)
JoinFiltered(rows, campaign_id, employee_id) ==
    IF rows = << >> THEN << >>
    ELSE LET event == Head(rows)
             keep  == /\ CampaignById(event.campaign_id) # {}
                      /\ Truthy(campaign_id) => event.campaign_id = campaign_id[1]
                      /\ Truthy(employee_id) => event.employee_id = employee_id[1]
             rest  == JoinFiltered(Tail(rows), campaign_id, employee_id)
         IN  IF keep
               THEN << EventResponse(event, First(CampaignById(event.campaign_id)).name) >>
                    \o rest
               ELSE rest

\* GET /events/
get_events(campaign_id, employee_id, fault) ==
    IF fault = "query"
      THEN Outcome(events, HTTPException("get_events", 500, "Internal Server Error"))
      ELSE Outcome(events,
                   Response("get_events", 200, "application/json",
                            JoinFiltered(events, campaign_id, employee_id)))

(* ------------------------ the submitted form --------------------------- *)

FormEmails == {"a@x.com"}

\* Values of the campaign_id and employee_id form fields, as character
\* sequences: integer strings and strings int() rejects.
CampaignIdStrings == { << "2" >>, << " ", "3" >>, << "x" >> }

EmployeeIdStrings == { << >>, << "+", "9" >>, << "1", ".", "5" >> }

\* A form holding the given fields; a field given as the empty set is absent.
Form(email, campaign_id, employee_id) ==
    [ name \in (IF email = {} THEN {} ELSE {"employee_email"})
               \cup (IF campaign_id = {} THEN {} ELSE {"campaign_id"})
               \cup (IF employee_id = {} THEN {} ELSE {"employee_id"}) |->
        CASE name = "employee_email" -> First(email)
          [] name = "campaign_id"    -> First(campaign_id)
          [] name = "employee_id"    -> First(employee_id) ]

Optional(S) == { {} } \cup { {x} : x \in S }

Forms ==
    { Form(e, c, i) : e \in Optional(FormEmails),
                      c \in Optional(CampaignIdStrings),
                      i \in Optional(EmployeeIdStrings) }

\* Values of the campaign_id and employee_id query parameters of GET /events/
CampaignFilters == { None } \cup { Some(x) : x \in {0, 1, 2} }

EmployeeFilters == { None } \cup { Some(x) : x \in {0, 7, 9} }

(* --------------------------- the state machine ------------------------- *)

NoResponse == Response("none", 0, "", << >>)

Init ==
    /\ campaigns = CampaignRows
    /\ employees = EmployeeRows
    /\ events = << >>
    /\ resp = NoResponse

\* One request served: the handler's outcome becomes the state.
Serve(outcome) ==
    /\ Len(outcome.events) <= MaxEvents
    /\ events' = outcome.events
    /\ resp' = outcome.resp
    /\ UNCHANGED << campaigns, employees >>

TrackOpen ==
    \E email \in Emails, campaign_id \in CampaignIds,
       host \in ClientHosts, fault \in StoreFaults :
        Serve(track_open(email, campaign_id, host, fault))

TrackClick ==
    \E email \in Emails, campaign_id \in CampaignIds,
       host \in ClientHosts, fault \in RenderFaults :
        Serve(track_click(email, campaign_id, host, fault))

TrackSubmitted ==
    \E form \in Forms, host \in ClientHosts, fault \in RenderFaults \ {"query"} :
        Serve(track_submitted(form, host, fault))

TrackReported ==
    \E email \in Emails, campaign_id \in CampaignIds,
       host \in ClientHosts, fault \in RenderFaults :
        Serve(track_reported(email, campaign_id, host, fault))

TrackDownloaded ==
    \E email \in Emails, campaign_id \in CampaignIds,
       host \in ClientHosts, fault \in StoreFaults :
        Serve(track_downloaded(email, campaign_id, host, fault))

GetEvents ==
    \E campaign_id \in CampaignFilters, employee_id \in EmployeeFilters,
       fault \in {"none", "query"} :
        Serve(get_events(campaign_id, employee_id, fault))

Next ==
    \/ TrackOpen
    \/ TrackClick
    \/ TrackSubmitted
    \/ TrackReported
    \/ TrackDownloaded
    \/ GetEvents

Spec == Init /\ [][Next]_vars

(* ======================= properties of the service ===================== *)

\* The step from the current state to the next is a call with this outcome.
Served(outcome) == events' = outcome.events /\ resp' = outcome.resp

\* The four handlers that take (email, campaign_id) and record an event
\* under the employee found by email, each called when nothing fails in the
\* store or in rendering.
OpenOutcome(email, campaign_id, host) == track_open(email, campaign_id, host, "none")

ClickOutcome(email, campaign_id, host) == track_click(email, campaign_id, host, "none")

ReportedOutcome(email, campaign_id, host) ==
    track_reported(email, campaign_id, host, "none")

DownloadedOutcome(email, campaign_id, host) ==
    track_downloaded(email, campaign_id, host, "none")

NotFoundUnchanged == resp'.status_code = 404 /\ events' = events

\* C1: when no Employee has the given email, track_open, track_click,
\* track_reported and track_downloaded each answer 404 and leave the Event
\* table as it was.
C1_UnknownEmployeeIs404 ==
    [][ \A email \in Emails, campaign_id \in CampaignIds, host \in ClientHosts :
          (\A e \in employees : e.email # email) =>
            /\ Served(OpenOutcome(email, campaign_id, host)) => NotFoundUnchanged
            /\ Served(ClickOutcome(email, campaign_id, host)) => NotFoundUnchanged
            /\ Served(ReportedOutcome(email, campaign_id, host)) => NotFoundUnchanged
            /\ Served(DownloadedOutcome(email, campaign_id, host)) => NotFoundUnchanged
      ]_vars

\* C2: when no Campaign has the given id, track_open and track_click each
\* answer 404 and create no Event row, whether or not the employee exists.
C2_UnknownCampaignIs404 ==
    [][ \A email \in Emails, campaign_id \in CampaignIds, host \in ClientHosts :
          (\A c \in campaigns : c.id # campaign_id) =>
            /\ Served(OpenOutcome(email, campaign_id, host)) =>
                 (resp'.status_code = 404 /\ Len(events') = Len(events))
            /\ Served(ClickOutcome(email, campaign_id, host)) =>
                 (resp'.status_code = 404 /\ Len(events') = Len(events))
      ]_vars

\* The views returned by GET /events/ with the given filters, nothing failing.
Listed(campaign_id, employee_id) == get_events(campaign_id, employee_id, "none").resp.content

\* C3: the unfiltered listing holds exactly one view per Event row of the
\* store, each carrying the name of the Campaign of the event's campaign_id.
C3_ListReturnsEveryEvent ==
    LET views == Listed(None, None)
    IN  /\ Len(views) = Len(events)
        /\ \A i \in 1..Len(events) :
              Cardinality({ j \in 1..Len(views) : views[j].id = events[i].id }) = 1
        /\ \A j \in 1..Len(views) :
              \E c \in campaigns :
                  c.id = views[j].campaign_id /\ c.name = views[j].campaign_name

\* The ids of the views of a listing.
ListedIds(campaign_id, employee_id) ==
    { Listed(campaign_id, employee_id)[j].id :
        j \in 1..Len(Listed(campaign_id, employee_id)) }

FilterValues == {0, 1, 2, 7, 9}

\* C4: for every integer X, 0 included, the listing filtered by campaign_id=X
\* holds only events of campaign X; filtered by campaign_id=X and
\* employee_id=Y it holds exactly the events with both values, the
\* intersection of the two single-filter listings.
C4_FiltersSelectByEquality ==
    \A X \in FilterValues, Y \in FilterValues :
        /\ \A j \in 1..Len(Listed(Some(X), None)) :
               Listed(Some(X), None)[j].campaign_id = X
        /\ \A j \in 1..Len(Listed(Some(X), Some(Y))) :
               /\ Listed(Some(X), Some(Y))[j].campaign_id = X
               /\ Listed(Some(X), Some(Y))[j].employee_id = Y
        /\ ListedIds(Some(X), Some(Y)) =
               ListedIds(Some(X), None) \cap ListedIds(None, Some(Y))

\* C5: no partial success: a call that ends in an error response leaves no
\* Event row behind; a row is added only by a call that answers 200.
C5_NoRowFromFailedCall ==
    [][ events' # events => resp'.status_code = 200 ]_vars

\* An event's campaign_id and employee_id both identify existing rows.
ReferencesExist(event) ==
    /\ \E c \in campaigns : c.id = event.campaign_id
    /\ \E e \in employees : e.id = event.employee_id

\* C6 as stated: every OPEN, CLICK or SUBMITTED event references a Campaign
\* and an Employee that exist.
C6_OpenClickSubmittedReferencesExist ==
    \A i \in 1..Len(events) :
        events[i].event_type \in {"OPEN", "CLICK", "SUBMITTED"} =>
            ReferencesExist(events[i])

\* C6 as amended: every OPEN or CLICK event references a Campaign and an
\* Employee that exist; the handler of SUBMITTED events looks nothing up.
C6_OpenClickReferencesExist ==
    \A i \in 1..Len(events) :
        events[i].event_type \in {"OPEN", "CLICK"} => ReferencesExist(events[i])

C6_Witness ==
    /\ Len(events) = 2
    /\ events[1].event_type = "OPEN"
    /\ events[2].event_type = "CLICK"
    /\ resp.op = "track_click"
    /\ resp.status_code = 200

\* Form values of the id fields that are not integer strings.
NonIntegerStrings == { << >>, << "x" >>, << "1", ".", "5" >> }

\* A form with a field absent, or with an id field that is not an integer.
BadForm(form) ==
    \/ \E name \in {"employee_email", "campaign_id", "employee_id"} :
           name \notin DOMAIN form
    \/ form.campaign_id \in NonIntegerStrings
    \/ form.employee_id \in NonIntegerStrings

\* C7: track_submitted answers 400 and leaves the Event table unchanged when
\* a form field is absent or an id field is not an integer string; this
\* holds in every state, so also after the same bad call was already made.
C7_BadFormIs400 ==
    \A form \in Forms, host \in ClientHosts, fault \in RenderFaults \ {"query"} :
        BadForm(form) =>
            /\ track_submitted(form, host, fault).resp.status_code = 400
            /\ track_submitted(form, host, fault).events = events

C7_Witness ==
    /\ resp.op = "track_submitted"
    /\ resp.status_code = 400
    /\ resp.content.detail = "Invalid ID format"
    /\ Len(events) = 1

\* The bytes of the 1x1 GIF.
GifBytes ==
    << 71, 73, 70, 56, 57, 97, 1, 0, 1, 0, 240, 0, 0, 0, 0, 0, 0, 0, 0, 33, 249,
       4, 1, 0, 0, 0, 0, 44, 0, 0, 0, 0, 1, 0, 1, 0, 0, 2, 2, 68, 1, 0, 59 >>

\* C8: with the campaign and the employee both existing and the store not
\* failing, track_open adds exactly one row (OPEN, the given email and
\* campaign_id, the employee's id, the client address) to whatever rows
\* there are, and answers 200 with the decoded GIF; nothing is deduplicated,
\* so n calls add n rows.
C8_OpenAddsOneRow ==
    \A email \in Emails, campaign_id \in CampaignIds, host \in ClientHosts :
        \A c \in campaigns, e \in employees :
            (c.id = campaign_id /\ e.email = email) =>
                LET o   == OpenOutcome(email, campaign_id, host)
                    row == o.events[Len(o.events)]
                IN  /\ Len(o.events) = Len(events) + 1
                    /\ SubSeq(o.events, 1, Len(events)) = events
                    /\ row.event_type = "OPEN"
                    /\ row.email = email
                    /\ row.campaign_id = campaign_id
                    /\ row.employee_id = e.id
                    /\ row.ip = host
                    /\ o.resp.status_code = 200
                    /\ o.resp.media_type = "image/gif"
                    /\ o.resp.content = GifBytes

C8_Witness ==
    /\ Len(events) = 2
    /\ resp.op = "track_open"
    /\ resp.status_code = 200
    /\ events[1].event_type = "OPEN"
    /\ events[2].event_type = "OPEN"
    /\ events[1].email = events[2].email
    /\ events[1].campaign_id = events[2].campaign_id

\* C9: events are append-only: a step keeps every row as it is, adds at most
\* one, adds none when it is a listing or a write that answers an error, and
\* never touches the Campaign and Employee tables.
C9_AppendOnly ==
    [][ /\ Len(events') \in { Len(events), Len(events) + 1 }
        /\ SubSeq(events', 1, Len(events)) = events
        /\ (resp'.op = "get_events" \/ resp'.status_code # 200) => events' = events
        /\ campaigns' = campaigns
        /\ employees' = employees
      ]_vars

\* The integer an integer string of the form denotes.
FormIdValue(s) ==
    CASE s = << "2" >>      -> 2
      [] s = << " ", "3" >> -> 3
      [] s = << "+", "9" >> -> 9

\* C10: an event of any kind but SUBMITTED carries the id of the Employee
\* whose email is the event's email; track_submitted stores the employee_id
\* of the form as it is (the store not failing), whether or not it matches
\* the email or identifies an Employee, and whether or not the campaign
\* exists.
C10_EmployeeIdFromLookup ==
    /\ \A i \in 1..Len(events) :
          events[i].event_type # "SUBMITTED" =>
              \E e \in employees :
                  e.email = events[i].email /\ e.id = events[i].employee_id
    /\ \A form \in Forms, host \in ClientHosts :
          ~BadForm(form) =>
              LET o   == track_submitted(form, host, "none")
                  row == o.events[Len(o.events)]
              IN  /\ Len(o.events) = Len(events) + 1
                  /\ row.event_type = "SUBMITTED"
                  /\ row.email = form.employee_email
                  /\ row.employee_id = FormIdValue(form.employee_id)
                  /\ row.campaign_id = FormIdValue(form.campaign_id)

C10_Witness ==
    \E i \in 1..Len(events), j \in 1..Len(events) :
        /\ events[i].event_type = "REPORTED"
        /\ events[i].email = "b@x.com"
        /\ events[j].event_type = "SUBMITTED"
        /\ events[j].email = "a@x.com"
        /\ \A e \in employees : e.id # events[j].employee_id
        /\ \A c \in campaigns : c.id # events[j].campaign_id

====
